---- MODULE Spec2Model ----
(***************************************************************************)
(* A model of rat (src/main.rs), a reimplementation of cat: the flag       *)
(* parser RatArgs::parse, main, choose_your_adventure, run, the line       *)
(* transformer print_concatenated_files and the echo loop enter_repl.      *)
(*                                                                         *)
(* Text is a sequence of code points.  One entry of stdout is one println! *)
(* (the text handed to it; the newline println! adds is implicit in the    *)
(* entry).  One entry of stderr is one eprintln!.                          *)
(***************************************************************************)
EXTENDS Integers, Sequences, FiniteSets, TLC

VARIABLES
    args_vec,              \* parse: the argument tokens after the program name
    ai,                    \* parse: position of the for loop in args_vec
    flags,                 \* RatArgs.flags
    paths,                 \* RatArgs.paths
    error,                 \* RatArgs.error
    pc,                    \* where the process is
    concatenated_files,    \* run: the text read so far
    pi,                    \* run: position of the for loop in args.paths
    data,                  \* print_concatenated_files: its argument
    li,                    \* print_concatenated_files: position in data.lines()
    line_count,            \* print_concatenated_files: the counter
    previous_line_empty,   \* print_concatenated_files: the squeeze state
    ret,                   \* where the running print_concatenated_files returns to
    stdout,                \* what has been written to standard output
    stderr,                \* what has been written to the error stream
    reads,                 \* the fs::read_to_string calls made so far, in order
    print_calls,           \* the calls of print_concatenated_files made so far
    stdin_eof,             \* standard input has reported end of input
    stdin_read,            \* lines taken from standard input so far
    eof_reads              \* read_line calls that returned Ok(0)

vars == <<args_vec, ai, flags, paths, error, pc, concatenated_files, pi, data, li,
          line_count, previous_line_empty, ret, stdout, stderr, reads, print_calls,
          stdin_eof, stdin_read, eof_reads>>

-----------------------------------------------------------------------------
(* Bounds of the model *)

MaxLen == 3
MaxArgs == 3
MaxStdin == 2
MaxEofReads == 2

(* Code points *)
TAB == 9
LF == 10
CR == 13
SPACE == 32
DOLLAR == 36
DIGIT0 == 48
UPPER_I == 73
CARET == 94

\* the characters input text is drawn from
Chars == {1, TAB, LF, CR, 97, 127}

RECURSIVE SeqsUpTo(_, _)
SeqsUpTo(S, n) ==
    IF n = 0 THEN {<<>>}
    ELSE LET shorter == SeqsUpTo(S, n - 1)
         IN  shorter \cup {Append(s, c) : s \in {t \in shorter : Len(t) = n - 1}, c \in S}

Texts == SeqsUpTo(Chars, MaxLen)

-----------------------------------------------------------------------------
(* Library functions the program calls *)

\* str::strip_suffix('\r') of one piece
StripCR(s) ==
    IF Len(s) > 0 /\ s[Len(s)] = CR THEN SubSeq(s, 1, Len(s) - 1) ELSE s

\* str::lines(): split_inclusive('\n'); a piece ending in '\n' loses it and then
\* one '\r' before it; a last piece without '\n' is kept as it is
RECURSIVE LinesFrom(_, _, _)
LinesFrom(s, i, cur) ==
    IF i > Len(s) THEN (IF cur = <<>> THEN <<>> ELSE <<cur>>)
    ELSE IF s[i] = LF THEN <<StripCR(cur)>> \o LinesFrom(s, i + 1, <<>>)
    ELSE LinesFrom(s, i + 1, Append(cur, s[i]))

Lines(s) == LinesFrom(s, 1, <<>>)

\* char::from_u32: None for a surrogate or a value above 0x10FFFF
FromU32IsSome(u) == u >= 0 /\ u <= 1114111 /\ ~(u >= 55296 /\ u <= 57343)

\* str::replace(from, to) for a one-character pattern
RECURSIVE Replace(_, _, _)
Replace(s, from, to) ==
    IF s = <<>> THEN <<>>
    ELSE (IF Head(s) = from THEN to ELSE <<Head(s)>>) \o Replace(Tail(s), from, to)

\* str::contains for a one-character pattern
Contains(s, c) == \E i \in 1..Len(s) : s[i] = c

\* Display of an integer: its decimal digits
RECURSIVE Decimal(_)
Decimal(n) ==
    IF n < 10 THEN <<DIGIT0 + n>>
    ELSE Decimal(n \div 10) \o <<DIGIT0 + (n % 10)>>

\* format!("{}    {}", line_count, line_to_print)
NumberedFormat(n, text) == Decimal(n) \o <<SPACE, SPACE, SPACE, SPACE>> \o text

-----------------------------------------------------------------------------
(* print_concatenated_files, one line *)

\* a variant of EscapeChar that leaves the tab alone
EscapeCharKeepingTab(ch) ==
    IF ch <= 31 /\ ch # TAB
    THEN (IF FromU32IsSome(ch + 64) THEN <<CARET, ch + 64>> ELSE <<>>)
    ELSE <<ch>>

\* lines 120-127: what one character adds to line_to_print under show_nonprinting
EscapeChar(ch) ==
    IF ch <= 31
    THEN (IF FromU32IsSome(ch + 64) THEN <<CARET, ch + 64>> ELSE <<>>)
    ELSE <<ch>>

\* lines 117-129
RECURSIVE ShowNonprinting(_)
ShowNonprinting(line) ==
    IF line = <<>> THEN <<>>
    ELSE EscapeChar(Head(line)) \o ShowNonprinting(Tail(line))

\* lines 115-137: line_to_print when the squeeze test is reached
LineToPrint(line, f) ==
    LET l1 == IF f.show_nonprinting THEN ShowNonprinting(line) ELSE line
        l2 == IF f.show_tabs /\ Contains(line, TAB)
              THEN Replace(l1, TAB, <<CARET, UPPER_I>>) ELSE l1
    IN  IF f.show_ends THEN Append(l2, DOLLAR) ELSE l2

\* lines 139-141: the line is skipped
Squeezed(f, line_to_print, prev_empty) ==
    f.squeeze_blank /\ line_to_print = <<>> /\ prev_empty

\* a variant of Numbered that tests the printed form of the line
NumberedByPrintedForm(f, line, line_to_print) ==
    \/ f.output_nums /\ ~f.number_nonblank
    \/ line_to_print # <<>> /\ f.number_nonblank

\* lines 146 and 149: the line is written with the counter in front
Numbered(f, line, line_to_print) ==
    \/ f.output_nums /\ ~f.number_nonblank
    \/ line # <<>> /\ f.number_nonblank

\* one println! of the transformer; src is the position of the line in data.lines()
OutLine(text, src) == [kind |-> "line", text |-> text, src |-> src]

\* one println! of a fixed message (the usage line, the three version lines)
OutMessage(kind) == [kind |-> kind, text |-> <<>>, src |-> 0]

\* one println! of the echo loop
OutEcho(buffer) == [kind |-> "echo", text |-> buffer, src |-> 0]

\* Option<RatError>
None == [tag |-> "None"]
Some(kind, message) == [tag |-> "Some", error |-> kind, message |-> message]

CurLine == Lines(data)[li]

\* lines 139-142, with a skipped line taking a number
PrintSqueezedCounting ==
    /\ pc = "print"
    /\ li <= Len(Lines(data))
    /\ Squeezed(flags, LineToPrint(CurLine, flags), previous_line_empty)
    /\ li' = li + 1
    /\ line_count' = line_count + 1
    /\ UNCHANGED <<args_vec, ai, flags, paths, error, pc, concatenated_files, pi, data,
                   previous_line_empty, ret, stdout, stderr, reads, print_calls,
                   stdin_eof, stdin_read, eof_reads>>

\* lines 114-142: an iteration that ends at `continue`
PrintSqueezed ==
    /\ pc = "print"
    /\ li <= Len(Lines(data))
    /\ Squeezed(flags, LineToPrint(CurLine, flags), previous_line_empty)
    /\ li' = li + 1
    /\ UNCHANGED <<args_vec, ai, flags, paths, error, pc, concatenated_files, pi, data,
                   line_count, previous_line_empty, ret, stdout, stderr, reads,
                   print_calls, stdin_eof, stdin_read, eof_reads>>

\* lines 114-151: an iteration that writes the line with the counter
PrintNumbered ==
    /\ pc = "print"
    /\ li <= Len(Lines(data))
    /\ LET ltp == LineToPrint(CurLine, flags)
       IN  /\ ~Squeezed(flags, ltp, previous_line_empty)
           /\ Numbered(flags, CurLine, ltp)
           /\ previous_line_empty' =
                  (IF flags.squeeze_blank THEN ltp = <<>> ELSE previous_line_empty)
           /\ stdout' = Append(stdout, OutLine(NumberedFormat(line_count, ltp), li))
    /\ line_count' = line_count + 1
    /\ li' = li + 1
    /\ UNCHANGED <<args_vec, ai, flags, paths, error, pc, concatenated_files, pi, data,
                   ret, stderr, reads, print_calls, stdin_eof, stdin_read, eof_reads>>

\* lines 114-154: an iteration that writes the line without a counter
PrintPlain ==
    /\ pc = "print"
    /\ li <= Len(Lines(data))
    /\ LET ltp == LineToPrint(CurLine, flags)
       IN  /\ ~Squeezed(flags, ltp, previous_line_empty)
           /\ ~Numbered(flags, CurLine, ltp)
           /\ previous_line_empty' =
                  (IF flags.squeeze_blank THEN ltp = <<>> ELSE previous_line_empty)
           /\ stdout' = Append(stdout, OutLine(ltp, li))
    /\ li' = li + 1
    /\ UNCHANGED <<args_vec, ai, flags, paths, error, pc, concatenated_files, pi, data,
                   line_count, ret, stderr, reads, print_calls, stdin_eof, stdin_read,
                   eof_reads>>

\* line 156: data.lines() is exhausted and the function returns to its caller
PrintReturn ==
    /\ pc = "print"
    /\ li > Len(Lines(data))
    /\ pc' = ret
    /\ UNCHANGED <<args_vec, ai, flags, paths, error, concatenated_files, pi, data, li,
                   line_count, previous_line_empty, ret, stdout, stderr, reads,
                   print_calls, stdin_eof, stdin_read, eof_reads>>

-----------------------------------------------------------------------------
(* The line transformer on its own: every configuration, every text *)

FlagSets == [output_nums : BOOLEAN, squeeze_blank : BOOLEAN, number_nonblank : BOOLEAN,
             show_tabs : BOOLEAN, show_ends : BOOLEAN, show_nonprinting : BOOLEAN]

InitTransformer ==
    /\ args_vec = <<>>
    /\ ai = 1
    /\ flags \in FlagSets
    /\ paths = <<>>
    /\ error = None
    /\ pc = "print"
    /\ concatenated_files \in Texts
    /\ pi = 1
    /\ data = concatenated_files
    /\ li = 1
    /\ line_count = 1
    /\ previous_line_empty = FALSE
    /\ ret = "done"
    /\ stdout = <<>>
    /\ stderr = <<>>
    /\ reads = <<>>
    /\ print_calls = 1
    /\ stdin_eof = FALSE
    /\ stdin_read = 0
    /\ eof_reads = 0

NextTransformer == PrintSqueezed \/ PrintNumbered \/ PrintPlain \/ PrintReturn

SpecTransformer == InitTransformer /\ [][NextTransformer]_vars

-----------------------------------------------------------------------------
(* Argument tokens: the number of leading hyphens and what follows them *)

Tok(h, b) == [hyphens |-> h, body |-> b]

ArgTokens ==
    {Tok(1, ""), Tok(1, "n"), Tok(1, "s"), Tok(1, "b"), Tok(1, "T"), Tok(1, "E"),
     Tok(1, "v"), Tok(1, "h"), Tok(2, "help"), Tok(2, "version"), Tok(2, "bogus"),
     Tok(1, "x"), Tok(0, "a.txt"), Tok(0, "b.txt")}

\* what fs::read_to_string can return for a readable path
FileTexts == {<<97, LF>>, <<LF, LF>>, <<TAB>>}

\* what it can fail with
IoErrors == {"No such file or directory (os error 2)"}

\* what one read_line can deliver before end of input
StdinChunks == {<<97, LF>>}

\* arg.eq("-")
IsStdinMarker(arg) == arg.hyphens = 1 /\ arg.body = ""

\* arg.starts_with("-") || arg.starts_with("--")
StartsWithHyphen(arg) == arg.hyphens >= 1 \/ arg.hyphens >= 2

\* arg.trim_start_matches("-")
TrimStartHyphens(arg) == arg.body

OptionNames == {"n", "number", "s", "squeeze-blank", "b", "number-nonblank",
                "T", "show-tabs", "E", "show-ends", "v", "show-nonprinting"}

\* lines 67-72
SetFlag(f, flag) ==
    CASE flag \in {"n", "number"} -> [f EXCEPT !.output_nums = TRUE]
      [] flag \in {"s", "squeeze-blank"} -> [f EXCEPT !.squeeze_blank = TRUE]
      [] flag \in {"b", "number-nonblank"} -> [f EXCEPT !.number_nonblank = TRUE]
      [] flag \in {"T", "show-tabs"} -> [f EXCEPT !.show_tabs = TRUE]
      [] flag \in {"E", "show-ends"} -> [f EXCEPT !.show_ends = TRUE]
      [] flag \in {"v", "show-nonprinting"} -> [f EXCEPT !.show_nonprinting = TRUE]

\* RatArgs::new().flags
NoFlags == [output_nums |-> FALSE, squeeze_blank |-> FALSE, number_nonblank |-> FALSE,
            show_tabs |-> FALSE, show_ends |-> FALSE, show_nonprinting |-> FALSE]

CurArg == args_vec[ai]

-----------------------------------------------------------------------------
(* RatArgs::parse, one token per step *)

\* lines 62-63
ParseStdinMarker ==
    /\ pc = "parse"
    /\ ai <= Len(args_vec)
    /\ IsStdinMarker(CurArg)
    /\ paths' = Append(paths, CurArg)
    /\ ai' = ai + 1
    /\ UNCHANGED <<args_vec, flags, error, pc, concatenated_files, pi, data, li,
                   line_count, previous_line_empty, ret, stdout, stderr, reads,
                   print_calls, stdin_eof, stdin_read, eof_reads>>

\* lines 64-72
ParseFlag ==
    /\ pc = "parse"
    /\ ai <= Len(args_vec)
    /\ ~IsStdinMarker(CurArg)
    /\ StartsWithHyphen(CurArg)
    /\ TrimStartHyphens(CurArg) \in OptionNames
    /\ flags' = SetFlag(flags, TrimStartHyphens(CurArg))
    /\ ai' = ai + 1
    /\ UNCHANGED <<args_vec, paths, error, pc, concatenated_files, pi, data, li,
                   line_count, previous_line_empty, ret, stdout, stderr, reads,
                   print_calls, stdin_eof, stdin_read, eof_reads>>

\* line 73 with the exit(0) of display_help left out
ParseHelpNoExit ==
    /\ pc = "parse"
    /\ ai <= Len(args_vec)
    /\ ~IsStdinMarker(CurArg)
    /\ StartsWithHyphen(CurArg)
    /\ TrimStartHyphens(CurArg) \in {"h", "help"}
    /\ stdout' = Append(stdout, OutMessage("usage"))
    /\ ai' = ai + 1
    /\ UNCHANGED <<args_vec, flags, paths, error, pc, concatenated_files, pi, data, li,
                   line_count, previous_line_empty, ret, stderr, reads, print_calls,
                   stdin_eof, stdin_read, eof_reads>>

\* line 73 and display_help (lines 181-184)
ParseHelp ==
    /\ pc = "parse"
    /\ ai <= Len(args_vec)
    /\ ~IsStdinMarker(CurArg)
    /\ StartsWithHyphen(CurArg)
    /\ TrimStartHyphens(CurArg) \in {"h", "help"}
    /\ stdout' = Append(stdout, OutMessage("usage"))
    /\ pc' = "exited"
    /\ UNCHANGED <<args_vec, ai, flags, paths, error, concatenated_files, pi, data, li,
                   line_count, previous_line_empty, ret, stderr, reads, print_calls,
                   stdin_eof, stdin_read, eof_reads>>

\* line 74 and display_version (lines 186-191)
ParseVersion ==
    /\ pc = "parse"
    /\ ai <= Len(args_vec)
    /\ ~IsStdinMarker(CurArg)
    /\ StartsWithHyphen(CurArg)
    /\ TrimStartHyphens(CurArg) = "version"
    /\ stdout' = stdout \o <<OutMessage("version"), OutMessage("copyright"),
                             OutMessage("license")>>
    /\ pc' = "exited"
    /\ UNCHANGED <<args_vec, ai, flags, paths, error, concatenated_files, pi, data, li,
                   line_count, previous_line_empty, ret, stderr, reads, print_calls,
                   stdin_eof, stdin_read, eof_reads>>

\* lines 75-80
ParseInvalidFlag ==
    /\ pc = "parse"
    /\ ai <= Len(args_vec)
    /\ ~IsStdinMarker(CurArg)
    /\ StartsWithHyphen(CurArg)
    /\ TrimStartHyphens(CurArg) \notin OptionNames \cup {"h", "help", "version"}
    /\ error' = Some("InvalidFlag", <<"Invalid flag", TrimStartHyphens(CurArg)>>)
    /\ ai' = ai + 1
    /\ UNCHANGED <<args_vec, flags, paths, pc, concatenated_files, pi, data, li,
                   line_count, previous_line_empty, ret, stdout, stderr, reads,
                   print_calls, stdin_eof, stdin_read, eof_reads>>

\* lines 82-84
ParsePath ==
    /\ pc = "parse"
    /\ ai <= Len(args_vec)
    /\ ~IsStdinMarker(CurArg)
    /\ ~StartsWithHyphen(CurArg)
    /\ paths' = Append(paths, CurArg)
    /\ ai' = ai + 1
    /\ UNCHANGED <<args_vec, flags, error, pc, concatenated_files, pi, data, li,
                   line_count, previous_line_empty, ret, stdout, stderr, reads,
                   print_calls, stdin_eof, stdin_read, eof_reads>>

\* line 87
ParseReturn ==
    /\ pc = "parse"
    /\ ai > Len(args_vec)
    /\ pc' = "main"
    /\ UNCHANGED <<args_vec, ai, flags, paths, error, concatenated_files, pi, data, li,
                   line_count, previous_line_empty, ret, stdout, stderr, reads,
                   print_calls, stdin_eof, stdin_read, eof_reads>>

-----------------------------------------------------------------------------
(* main, handle_error, choose_your_adventure *)

\* handle_error (lines 193-199): what it writes to the error stream
ErrorReport(e) ==
    IF e.error = "InvalidFlag"
    THEN <<[kind |-> e.error, message |-> e.message],
           [kind |-> "hint", message |-> <<"Try 'rat --help' for more information.">>]>>
    ELSE <<[kind |-> e.error, message |-> e.message]>>

\* line 205 with the run going on after the report
MainErrorThenChoose ==
    /\ pc = "main"
    /\ error # None
    /\ stderr' = stderr \o ErrorReport(error)
    /\ pc' = IF paths = <<>> THEN "repl" ELSE "run"
    /\ UNCHANGED <<args_vec, ai, flags, paths, error, concatenated_files, pi, data, li,
                   line_count, previous_line_empty, ret, stdout, reads, print_calls,
                   stdin_eof, stdin_read, eof_reads>>

\* lines 204-205: main reports the parse error and returns
MainError ==
    /\ pc = "main"
    /\ error # None
    /\ stderr' = stderr \o ErrorReport(error)
    /\ pc' = "done"
    /\ UNCHANGED <<args_vec, ai, flags, paths, error, concatenated_files, pi, data, li,
                   line_count, previous_line_empty, ret, stdout, reads, print_calls,
                   stdin_eof, stdin_read, eof_reads>>

\* lines 206, 174-175
ChooseRepl ==
    /\ pc = "main"
    /\ error = None
    /\ paths = <<>>
    /\ pc' = "repl"
    /\ UNCHANGED <<args_vec, ai, flags, paths, error, concatenated_files, pi, data, li,
                   line_count, previous_line_empty, ret, stdout, stderr, reads,
                   print_calls, stdin_eof, stdin_read, eof_reads>>

\* lines 206, 176-177, 92
ChooseRun ==
    /\ pc = "main"
    /\ error = None
    /\ paths # <<>>
    /\ pc' = "run"
    /\ concatenated_files' = <<>>
    /\ pi' = 1
    /\ UNCHANGED <<args_vec, ai, flags, paths, error, data, li, line_count,
                   previous_line_empty, ret, stdout, stderr, reads, print_calls,
                   stdin_eof, stdin_read, eof_reads>>

-----------------------------------------------------------------------------
(* run, one path per step *)

\* lines 110-112: print_concatenated_files is entered with text d, to return to r
CallPrint(d, r) ==
    /\ data' = d
    /\ li' = 1
    /\ line_count' = 1
    /\ previous_line_empty' = FALSE
    /\ ret' = r
    /\ print_calls' = print_calls + 1
    /\ pc' = "print"

ReadRecord(path, ok, d) == [path |-> path, ok |-> ok, data |-> d]

\* lines 94-96: the text read so far goes to the transformer, the echo loop follows
RunStdinMarker ==
    /\ pc = "run"
    /\ pi <= Len(paths)
    /\ IsStdinMarker(paths[pi])
    /\ CallPrint(concatenated_files, "repl")
    /\ UNCHANGED <<args_vec, ai, flags, paths, error, concatenated_files, pi, stdout,
                   stderr, reads, stdin_eof, stdin_read, eof_reads>>

\* lines 98-99 with the text of the file replacing what was read before
RunReadOkOverwriting ==
    /\ pc = "run"
    /\ pi <= Len(paths)
    /\ ~IsStdinMarker(paths[pi])
    /\ \E d \in FileTexts :
           /\ concatenated_files' = d
           /\ reads' = Append(reads, ReadRecord(paths[pi], TRUE, d))
    /\ pi' = pi + 1
    /\ UNCHANGED <<args_vec, ai, flags, paths, error, pc, data, li, line_count,
                   previous_line_empty, ret, stdout, stderr, print_calls, stdin_eof,
                   stdin_read, eof_reads>>

\* lines 98-99
RunReadOk ==
    /\ pc = "run"
    /\ pi <= Len(paths)
    /\ ~IsStdinMarker(paths[pi])
    /\ \E d \in FileTexts :
           /\ concatenated_files' = concatenated_files \o d
           /\ reads' = Append(reads, ReadRecord(paths[pi], TRUE, d))
    /\ pi' = pi + 1
    /\ UNCHANGED <<args_vec, ai, flags, paths, error, pc, data, li, line_count,
                   previous_line_empty, ret, stdout, stderr, print_calls, stdin_eof,
                   stdin_read, eof_reads>>

\* lines 100-102 with the loop left at the unreadable path
RunReadErrBreaking ==
    /\ pc = "run"
    /\ pi <= Len(paths)
    /\ ~IsStdinMarker(paths[pi])
    /\ \E e \in IoErrors :
           stderr' = stderr \o ErrorReport(Some("NoFileFound", <<e>>))
    /\ reads' = Append(reads, ReadRecord(paths[pi], FALSE, <<>>))
    /\ pi' = Len(paths) + 1
    /\ UNCHANGED <<args_vec, ai, flags, paths, error, pc, concatenated_files, data, li,
                   line_count, previous_line_empty, ret, stdout, print_calls, stdin_eof,
                   stdin_read, eof_reads>>

\* lines 100-102 and handle_error
RunReadErr ==
    /\ pc = "run"
    /\ pi <= Len(paths)
    /\ ~IsStdinMarker(paths[pi])
    /\ \E e \in IoErrors :
           stderr' = stderr \o ErrorReport(Some("NoFileFound", <<e>>))
    /\ reads' = Append(reads, ReadRecord(paths[pi], FALSE, <<>>))
    /\ pi' = pi + 1
    /\ UNCHANGED <<args_vec, ai, flags, paths, error, pc, concatenated_files, data, li,
                   line_count, previous_line_empty, ret, stdout, print_calls, stdin_eof,
                   stdin_read, eof_reads>>

\* line 107: the loop is over and the text goes to the transformer
RunFinish ==
    /\ pc = "run"
    /\ pi > Len(paths)
    /\ CallPrint(concatenated_files, "done")
    /\ UNCHANGED <<args_vec, ai, flags, paths, error, concatenated_files, pi, stdout,
                   stderr, reads, stdin_eof, stdin_read, eof_reads>>

-----------------------------------------------------------------------------
(* enter_repl, one iteration of the loop per step *)

\* lines 163-166: read_line fills buffer with a line and its terminator
ReplEcho ==
    /\ pc = "repl"
    /\ ~stdin_eof
    /\ stdin_read < MaxStdin
    /\ \E buffer \in StdinChunks : stdout' = Append(stdout, OutEcho(buffer))
    /\ stdin_read' = stdin_read + 1
    /\ UNCHANGED <<args_vec, ai, flags, paths, error, pc, concatenated_files, pi, data,
                   li, line_count, previous_line_empty, ret, stderr, reads, print_calls,
                   stdin_eof, eof_reads>>

\* lines 163-166 with the loop left when read_line returns Ok(0)
ReplEndOfInputReturning ==
    /\ pc = "repl"
    /\ eof_reads < MaxEofReads
    /\ stdin_eof' = TRUE
    /\ eof_reads' = eof_reads + 1
    /\ pc' = IF paths = <<>> THEN "done" ELSE "run"
    /\ pi' = IF paths = <<>> THEN pi ELSE pi + 1
    /\ UNCHANGED <<args_vec, ai, flags, paths, error, concatenated_files, data, li,
                   line_count, previous_line_empty, ret, stdout, stderr, reads,
                   print_calls, stdin_read>>

\* lines 163-166 at end of input: read_line returns Ok(0) and leaves buffer empty,
\* the empty buffer is written and the loop goes on
ReplEndOfInput ==
    /\ pc = "repl"
    /\ eof_reads < MaxEofReads
    /\ stdout' = Append(stdout, OutEcho(<<>>))
    /\ stdin_eof' = TRUE
    /\ eof_reads' = eof_reads + 1
    /\ UNCHANGED <<args_vec, ai, flags, paths, error, pc, concatenated_files, pi, data,
                   li, line_count, previous_line_empty, ret, stderr, reads, print_calls,
                   stdin_read>>

\* line 168: read_line fails and the process panics
ReplPanic ==
    /\ pc = "repl"
    /\ pc' = "panicked"
    /\ UNCHANGED <<args_vec, ai, flags, paths, error, concatenated_files, pi, data, li,
                   line_count, previous_line_empty, ret, stdout, stderr, reads,
                   print_calls, stdin_eof, stdin_read, eof_reads>>

-----------------------------------------------------------------------------
(* The whole program *)

Init ==
    /\ args_vec \in SeqsUpTo(ArgTokens, MaxArgs)
    /\ ai = 1
    /\ flags = NoFlags
    /\ paths = <<>>
    /\ error = None
    /\ pc = "parse"
    /\ concatenated_files = <<>>
    /\ pi = 1
    /\ data = <<>>
    /\ li = 1
    /\ line_count = 1
    /\ previous_line_empty = FALSE
    /\ ret = "done"
    /\ stdout = <<>>
    /\ stderr = <<>>
    /\ reads = <<>>
    /\ print_calls = 0
    /\ stdin_eof = FALSE
    /\ stdin_read = 0
    /\ eof_reads = 0

Next ==
    \/ ParseStdinMarker \/ ParseFlag \/ ParseHelp \/ ParseVersion
    \/ ParseInvalidFlag \/ ParsePath \/ ParseReturn
    \/ MainError \/ ChooseRepl \/ ChooseRun
    \/ RunStdinMarker \/ RunReadOk \/ RunReadErr \/ RunFinish
    \/ PrintSqueezed \/ PrintNumbered \/ PrintPlain \/ PrintReturn
    \/ ReplEcho \/ ReplEndOfInput \/ ReplPanic

Spec == Init /\ [][Next]_vars

-----------------------------------------------------------------------------
(* Vocabulary of the properties *)

FourSpaces == <<SPACE, SPACE, SPACE, SPACE>>

\* positions of stdout written by the line transformer
LineEntries == {k \in 1..Len(stdout) : stdout[k].kind = "line"}

\* positions of stdout written by the echo loop
EchoEntries == {k \in 1..Len(stdout) : stdout[k].kind = "echo"}

\* the input line the k-th entry of stdout was made from
SourceLine(k) == Lines(data)[stdout[k].src]

\* positions of data.lines() that have been written
WrittenSources == {stdout[k].src : k \in LineEntries}

\* written lines up to the k-th that come from a non-empty input line
NonEmptyUpTo(k) == Cardinality({j \in 1..k : j \in LineEntries /\ SourceLine(j) # <<>>})

\* caret notation: ^ and code point + 64 for 0..31, everything else as it is
RECURSIVE CaretNotation(_)
CaretNotation(line) ==
    IF line = <<>> THEN <<>>
    ELSE (IF Head(line) \in 0..31 THEN <<CARET, Head(line) + 64>> ELSE <<Head(line)>>)
         \o CaretNotation(Tail(line))

\* the texts of the successful reads, one after the other
RECURSIVE ConcatOk(_)
ConcatOk(rs) ==
    IF rs = <<>> THEN <<>>
    ELSE (IF Head(rs).ok THEN Head(rs).data ELSE <<>>) \o ConcatOk(Tail(rs))

HasPrefix(s, p) == Len(s) >= Len(p) /\ SubSeq(s, 1, Len(p)) = p

\* the line entries of stdout are the first entries and follow the order of the input
WrittenInOrder ==
    /\ \A k \in LineEntries : \A j \in 1..(k - 1) :
           j \in LineEntries /\ stdout[j].src < stdout[k].src
    /\ \A k \in LineEntries : stdout[k].src \in 1..Len(Lines(data))

-----------------------------------------------------------------------------
(* The line transformer *)

\* C1: with numberAll set and numberNonBlank unset, under every setting of the other
\* four options, the k-th written line is the decimal number k, four spaces and the
\* transformed line; blank lines are numbered, a squeezed line takes no number, so the
\* numbers printed are 1..m without a gap or a repeat.
C1_NumberAllCountsWrittenLines ==
    (flags.output_nums /\ ~flags.number_nonblank) =>
        /\ WrittenInOrder
        /\ \A k \in LineEntries :
               stdout[k].text = Decimal(k) \o FourSpaces \o LineToPrint(SourceLine(k), flags)
        /\ (pc = "print" => line_count = Cardinality(LineEntries) + 1)

\* C1 witness: numbering with squeezing is over, a line was squeezed away, a blank
\* line carries a number and a line after the squeezed one was written.
C1_Witness ==
    /\ flags.output_nums /\ ~flags.number_nonblank /\ flags.squeeze_blank
    /\ pc = "done"
    /\ Len(stdout) >= 2
    /\ \E i \in 1..Len(Lines(data)) : i \notin WrittenSources /\ i < stdout[Len(stdout)].src
    /\ \E k \in LineEntries : SourceLine(k) = <<>> /\ HasPrefix(stdout[k].text, Decimal(k))

\* C2: with numberNonBlank set (numberAll set or not, any other options), a written
\* line has the counter in front and advances it exactly when its original content is
\* non-empty; a line whose original content is empty is written without a prefix and
\* leaves the counter alone, also when showEnds made its printed form "$".
C2_NumberNonblankByOriginalContent ==
    flags.number_nonblank =>
        /\ \A k \in LineEntries :
               LET ltp == LineToPrint(SourceLine(k), flags)
               IN  stdout[k].text =
                       IF SourceLine(k) # <<>>
                       THEN Decimal(NonEmptyUpTo(k)) \o FourSpaces \o ltp
                       ELSE ltp
        /\ (pc = "print" => line_count = NonEmptyUpTo(Len(stdout)) + 1)

\* C2 witness: both numbering options and showEnds are set; an empty line was written
\* as "$" alone and a non-empty line after it got the number 1.
C2_Witness ==
    /\ flags.number_nonblank /\ flags.output_nums /\ flags.show_ends
    /\ pc = "done"
    /\ \E k \in LineEntries : \E j \in LineEntries :
           /\ k < j
           /\ SourceLine(k) = <<>> /\ stdout[k].text = <<DOLLAR>>
           /\ SourceLine(j) # <<>> /\ HasPrefix(stdout[j].text, <<DIGIT0 + 1, SPACE>>)

\* C3: with squeezeBlank set, under every combination of the other options, a maximal
\* run of empty input lines yields exactly one written line: no two written lines in a
\* row both come from empty input lines, the first line of every run is written and
\* no non-empty line is dropped.
C3_SqueezeOneLinePerRun ==
    flags.squeeze_blank =>
        /\ \A k \in LineEntries :
               (k + 1) \in LineEntries => ~(SourceLine(k) = <<>> /\ SourceLine(k + 1) = <<>>)
        /\ \A i \in 1..Len(Lines(data)) :
               (i < li /\ Lines(data)[i] # <<>>) => i \in WrittenSources
        /\ \A i \in 1..Len(Lines(data)) :
               (i < li /\ Lines(data)[i] = <<>> /\ (i = 1 \/ Lines(data)[i - 1] # <<>>))
                   => i \in WrittenSources

\* C5: with showNonPrinting set, a written line is, after the optional number prefix
\* and before the optional "$", the input line in caret notation: ^ and code point +
\* 64 for every character of 0..31 (tab included), every other character (127
\* included) as it is, in order; showTabs makes no difference.
C5_NonPrintingCaretNotation ==
    flags.show_nonprinting =>
        \A k \in LineEntries :
            LET body == CaretNotation(SourceLine(k))
                        \o (IF flags.show_ends THEN <<DOLLAR>> ELSE <<>>)
            IN  stdout[k].text \in
                    {body} \cup {Decimal(n) \o FourSpaces \o body : n \in 1..k}

\* C5 witness: showNonPrinting and showTabs are both set and a line holding a tab,
\* code point 1 and code point 127 was written.
C5_Witness ==
    /\ flags.show_nonprinting /\ flags.show_tabs
    /\ \E k \in LineEntries :
           /\ Contains(SourceLine(k), TAB)
           /\ Contains(SourceLine(k), 1)
           /\ Contains(SourceLine(k), 127)
           /\ Contains(stdout[k].text, UPPER_I)

-----------------------------------------------------------------------------
(* The whole program *)

\* the token is "-"
IsDash(t) == t.hyphens = 1 /\ t.body = ""

\* the token is a help or version flag
IsHelpOrVersion(t) == t.hyphens >= 1 /\ t.body \in {"h", "help", "version"}

\* the token is a flag the table does not hold
IsUnrecognized(t) ==
    /\ t.hyphens >= 1
    /\ ~IsDash(t)
    /\ t.body \notin OptionNames \cup {"h", "help", "version"}

UnrecognizedAt == {i \in 1..Len(args_vec) : IsUnrecognized(args_vec[i])}
HelpOrVersionAt == {i \in 1..Len(args_vec) : IsHelpOrVersion(args_vec[i])}
DashAt == {i \in 1..Len(paths) : IsDash(paths[i])}

Least(S) == CHOOSE i \in S : \A j \in S : i <= j

\* run has been entered
InRun == error = None /\ paths # <<>> /\ pc \in {"run", "print", "repl", "panicked", "done"}

\* nothing was read, transformed or echoed
NothingDone ==
    /\ reads = <<>>
    /\ print_calls = 0
    /\ stdin_read = 0 /\ eof_reads = 0 /\ ~stdin_eof
    /\ LineEntries = {} /\ EchoEntries = {}

\* every input line up to li was written once, but for the ones the squeeze drops
TransformedOnce ==
    /\ WrittenInOrder
    /\ \A i \in 1..Len(Lines(data)) :
           i < li => (i \in WrittenSources \/ (flags.squeeze_blank /\ Lines(data)[i] = <<>>))
    /\ \A k \in LineEntries :
           LET ltp == LineToPrint(SourceLine(k), flags)
           IN  stdout[k].text \in {ltp} \cup {Decimal(n) \o FourSpaces \o ltp : n \in 1..k}

\* C4: the text handed to the line transformer is the contents of the successfully
\* read sources in list order with nothing between them, and the counter is set to 1
\* once in a run: the numbers printed are 1, 2, 3, ... across all the sources.
C4_ConcatenationAndOneCounter ==
    /\ print_calls <= 1
    /\ print_calls = 1 =>
           /\ data = ConcatOk(reads)
           /\ \A i \in 1..Len(reads) : reads[i].path = paths[i]
    /\ pc = "run" => concatenated_files = ConcatOk(reads)
    /\ (flags.output_nums /\ ~flags.number_nonblank) =>
           \A k \in LineEntries : HasPrefix(stdout[k].text, Decimal(k) \o FourSpaces)
    /\ flags.number_nonblank =>
           \A k \in LineEntries :
               SourceLine(k) # <<>> =>
                   HasPrefix(stdout[k].text, Decimal(NonEmptyUpTo(k)) \o FourSpaces)

\* C4 witness: two files were read, the second begins a new line, and its first line
\* was written with the number after the last number of the first file.
C4_Witness ==
    /\ flags.output_nums
    /\ pc = "done"
    /\ Len(reads) = 2 /\ reads[1].ok /\ reads[2].ok
    /\ reads[1].data = <<LF, LF>>
    /\ Len(Lines(data)) = 3
    /\ \E k \in LineEntries : stdout[k].src = 3 /\ HasPrefix(stdout[k].text, Decimal(3))

\* C6: when the arguments hold an unrecognized flag and parsing reaches the end, the
\* run writes the InvalidFlag report naming such a token and the usage hint to the
\* error stream and does nothing else: nothing is read, transformed or echoed.
C6_InvalidFlagIsFatal ==
    (UnrecognizedAt # {} /\ pc \notin {"parse", "exited"}) =>
        /\ pc \in {"main", "done"}
        /\ NothingDone
        /\ stdout = <<>>
        /\ pc = "main" => stderr = <<>>
        /\ pc = "done" =>
               \E i \in UnrecognizedAt :
                   stderr = <<[kind |-> "InvalidFlag",
                               message |-> <<"Invalid flag", args_vec[i].body>>],
                              [kind |-> "hint",
                               message |-> <<"Try 'rat --help' for more information.">>]>>

\* C6 witness: the unrecognized flag came first, an option and a path after it, and
\* main has returned.
C6_Witness ==
    /\ pc = "done"
    /\ Len(args_vec) = 3
    /\ IsUnrecognized(args_vec[1])
    /\ args_vec[2].body \in OptionNames
    /\ args_vec[3].hyphens = 0
    /\ Len(stderr) = 2

\* C7: in a run over a list without "-", every unreadable path gives exactly one
\* report on the error stream before the next path is tried and the loop goes on:
\* every path is tried, and the contents of all the readable ones, before and after
\* an unreadable one, are transformed and written in list order.
C7_UnreadablePathIsReportedAndSkipped ==
    (InRun /\ DashAt = {}) =>
        /\ pc \in {"run", "print", "done"}
        /\ pc = "run" => Len(reads) = pi - 1
        /\ pc \in {"print", "done"} => Len(reads) = Len(paths)
        /\ \A i \in 1..Len(reads) : reads[i].path = paths[i]
        /\ Len(stderr) = Cardinality({i \in 1..Len(reads) : ~reads[i].ok})
        /\ \A j \in 1..Len(stderr) : stderr[j].kind = "NoFileFound"
        /\ pc \in {"print", "done"} => (data = ConcatOk(reads) /\ TransformedOnce)
        /\ pc = "done" => li = Len(Lines(data)) + 1

\* C7 witness: of three paths the second was unreadable, and a line of the third was
\* written after a line of the first.
C7_Witness ==
    /\ pc = "done"
    /\ DashAt = {}
    /\ Len(reads) = 3 /\ reads[1].ok /\ ~reads[2].ok /\ reads[3].ok
    /\ Len(stderr) = 1
    /\ Len(stdout) >= 3

\* C8: at the first help or version token the message is printed and the process
\* exits: parsing never passes that token, no later token has an effect, nothing is
\* reported on the error stream, nothing is read, transformed or echoed.
C8_HelpAndVersionExitAtOnce ==
    /\ HelpOrVersionAt # {} =>
           /\ pc \in {"parse", "exited"}
           /\ ai <= Least(HelpOrVersionAt)
           /\ NothingDone
           /\ stderr = <<>>
           /\ pc = "parse" => stdout = <<>>
    /\ pc = "exited" =>
           /\ HelpOrVersionAt # {}
           /\ ai = Least(HelpOrVersionAt)
           /\ stdout = IF args_vec[ai].body = "version"
                       THEN <<OutMessage("version"), OutMessage("copyright"),
                              OutMessage("license")>>
                       ELSE <<OutMessage("usage")>>
           /\ ~ENABLED Next

\* C8 witness: the process exited at a help flag that an unrecognized flag and a
\* path follow.
C8_Witness ==
    /\ pc = "exited"
    /\ args_vec[ai].body = "help"
    /\ \E j \in UnrecognizedAt : j > ai
    /\ \E j \in 1..Len(args_vec) : j > ai /\ args_vec[j].hyphens = 0

\* C9: when run meets "-" at position i, the contents of the readable sources before
\* i go through the line transformer and are written once, then the echo loop takes
\* over: no path after i is ever read and the transformer is not entered again.
C9_DashFlushesOnceThenEchoes ==
    (InRun /\ DashAt # {}) =>
        /\ pc # "done"
        /\ pi <= Least(DashAt)
        /\ pc = "run" => Len(reads) = pi - 1
        /\ \A i \in 1..Len(reads) : reads[i].path = paths[i]
        /\ pc \in {"print", "repl", "panicked"} =>
               /\ pi = Least(DashAt)
               /\ Len(reads) = pi - 1
               /\ print_calls = 1
               /\ data = ConcatOk(reads)
               /\ TransformedOnce
        /\ pc \in {"repl", "panicked"} => li = Len(Lines(data)) + 1
        /\ pc \in {"run", "print"} => EchoEntries = {}

\* C9 witness: "-" stood between two paths, the text of the first was written and
\* the echo loop has echoed after it.
C9_Witness ==
    /\ pc = "repl"
    /\ Len(paths) = 3 /\ DashAt = {2}
    /\ Len(reads) = 1 /\ reads[1].ok
    /\ LineEntries # {}
    /\ EchoEntries # {}
    /\ stdin_eof

\* C10: the echo loop ends when standard input is exhausted: the n lines read are
\* written back, and once end of input has been read the loop reads and writes
\* nothing further.
C10_EchoLoopEndsAtEndOfInput ==
    stdin_eof =>
        /\ pc # "repl"
        /\ eof_reads = 1
        /\ Cardinality(EchoEntries) = stdin_read

====
